---- MODULE Spec2Model ----
(***************************************************************************)
(* A model of the text-transformation core of arxiv_latex_cleaner.py:      *)
(*   - _simplify_conditional_blocks  (token scan, conditional tree,        *)
(*     deletion spans, span application)                                   *)
(*   - _keep_only_referenced_tex  (the passes that close the set of        *)
(*     referenced tex files under "mentions")                              *)
(*   - _remove_command  (balanced-argument matching, replacement, the      *)
(*     loop for nested commands)                                           *)
(*   - _remove_comments_inline  (the three return paths of a line)         *)
(*   - _search_reference  (the pattern of the two modes and its search)    *)
(*   - _resize_and_copy_figure, _resize_pdf_figure  (the branches, the     *)
(*     external process and its bounded wait)                              *)
(* Texts are sequences of one-character strings; offsets are the 0-based   *)
(* offsets of the Python code.                                             *)
(***************************************************************************)
EXTENDS Integers, Sequences, FiniteSets, TLC

VARIABLES
  input,                \* the text argument as passed in
  if_exceptions,        \* the if_exceptions argument
  text,                 \* the local variable text (rewritten while spans are applied)
  kept,                 \* for each character of text, its offset in input
  matches,              \* the items of p.finditer(text), in order
  mi,                   \* how many of them the loop has consumed
  toplevel_tree,        \* the arena of tree nodes; node 1 is the toplevel node
  tree,                 \* the current node (an index into toplevel_tree)
  positions_to_delete,  \* the spans collected by traverse_tree
  todo,                 \* number of spans still to apply (applied last to first)
  stderr,               \* the lines print_abort has written
  pc,                   \* "scan", "apply", "done", "aborted", "raised"
  \* _keep_only_referenced_tex
  tex_files,            \* splits['tex_in_root'] + splits['tex_not_in_root']
  contents,             \* contents: for each file its list of lines
  start_with,           \* the start_with argument (NoFile for None)
  old_referenced,       \* the local set old_referenced
  referenced,           \* the local set referenced
  next_referenced,      \* the local set next_referenced
  to_visit,             \* the files the running for-loop over old_referenced has yet to take
  fn,                   \* the loop variable fn (NoFile before the first iteration)
  to_search,            \* the files the running for-loop over referenced has yet to take
  passes,               \* completed passes of the while-loop body
  tex_to_copy,          \* splits['tex_to_copy']
  cpc,                  \* "idle", "pass", "returned", "added"
  \* _remove_command
  cmd_input,            \* the text argument as passed in
  keep_text,            \* the keep_text argument
  cmd_text,             \* the local variable text
  all_substitutions,    \* the local list all_substitutions
  has_match,            \* the local variable has_match
  rounds,               \* completed iterations of the while-loop
  rpc,                  \* "idle", "find", "substitute", "check", "returned"
  \* _remove_comments_inline
  line,                 \* the text argument: one line of a file
  segments,             \* the local list segments
  seg_i,                \* the loop variable i
  line_out,             \* the returned string
  lpc,                  \* "idle", "start", "loop", "join", and the return taken:
                        \* "auto_ignore", "comment_line", "final"
  \* _search_reference
  filename,             \* the filename argument
  ref_contents,         \* the contents argument
  strict,               \* the strict argument
  patn,                 \* the local variable patn
  ref_match,            \* whether the returned value is a match object
  spc,                  \* "idle", "start", "search", "returned"
  \* _resize_and_copy_figure, _resize_pdf_figure
  fig_filename,         \* the filename argument
  resize_image,         \* the resize_image argument
  compress_pdf,         \* the compress_pdf argument
  png_to_jpg_compress,  \* the png_to_jpg_compress argument
  image_size,           \* the image_size argument
  im_max,               \* max(im.size) of the image in the origin folder
  destination_folder,   \* the files in the destination folder
  process,              \* "none", "running", "exited", "killed"
  elapsed,              \* the seconds process.communicate has waited
  fpc                   \* "idle", "start", "communicate", "returned"

condVars == <<input, if_exceptions, text, kept, matches, mi, toplevel_tree, tree,
              positions_to_delete, todo, stderr, pc>>

closureVars == <<tex_files, contents, start_with, old_referenced, referenced,
                 next_referenced, to_visit, fn, to_search, passes, tex_to_copy, cpc>>

commandVars == <<cmd_input, keep_text, cmd_text, all_substitutions, has_match, rounds, rpc>>

commentVars == <<line, segments, seg_i, line_out, lpc>>

searchVars == <<filename, ref_contents, strict, patn, ref_match, spc>>

resizeVars == <<fig_filename, resize_image, compress_pdf, png_to_jpg_compress, image_size,
                im_max, destination_folder, process, elapsed, fpc>>

vars == <<condVars, closureVars, commandVars, commentVars, searchVars, resizeVars>>

\* the variables a call of one function leaves alone
outsideCond == <<closureVars, commandVars, commentVars, searchVars, resizeVars>>

outsideClosure == <<condVars, commandVars, commentVars, searchVars, resizeVars>>

outsideCommand == <<condVars, closureVars, commentVars, searchVars, resizeVars>>

outsideComments == <<condVars, closureVars, commandVars, searchVars, resizeVars>>

outsideSearch == <<condVars, closureVars, commandVars, commentVars, resizeVars>>

outsideResize == <<condVars, closureVars, commandVars, commentVars, searchVars>>

(***************************************************************************)
(* Characters and character classes of the regular expressions.            *)
(***************************************************************************)
BS == "\\"

\* \w, as far as the texts of the model go
WordChars == {"a", "b", "c", "d", "e", "f", "g", "h", "i", "j", "k", "l", "m", "n", "o",
              "p", "q", "r", "s", "t", "u", "v", "w", "x", "y", "z",
              "0", "1", "2", "3", "4", "5", "6", "7", "8", "9", "_"}

SpaceChars == {" ", "\n", "\t"}

IsWord(c) == c \in WordChars

IsSpace(c) == c \in SpaceChars

\* t[k] of the Python code (0-based); "" past the end
At(t, k) == IF k >= 0 /\ k < Len(t) THEN t[k + 1] ELSE ""

\* t[a:b] of the Python code
Slice(t, a, b) == IF b <= a THEN <<>> ELSE SubSeq(t, a + 1, b)

\* the literal lit stands in t at offset p
MatchLit(t, p, lit) ==
  /\ p >= 0
  /\ p + Len(lit) <= Len(t)
  /\ \A j \in 1..Len(lit) : t[p + j] = lit[j]

RECURSIVE SkipSpace(_, _)
SkipSpace(t, p) == IF IsSpace(At(t, p)) THEN SkipSpace(t, p + 1) ELSE p

RECURSIVE SkipWord(_, _)
SkipWord(t, p) == IF IsWord(At(t, p)) THEN SkipWord(t, p + 1) ELSE p

LitNewif == <<BS, "n", "e", "w", "i", "f">>
LitIf == <<BS, "i", "f">>
LitElse == <<BS, "e", "l", "s", "e">>
LitFi == <<BS, "f", "i">>
LitIfFalse == <<BS, "i", "f", "f", "a", "l", "s", "e">>
LitIfTrue == <<BS, "i", "f", "t", "r", "u", "e">>
LitIf0 == <<BS, "i", "f", "0">>
LitIf1 == <<BS, "i", "f", "1">>

(***************************************************************************)
(* The compiled pattern p.  Its three alternatives, tried in this order:   *)
(*   1. not preceded by "\newif" and optional whitespace: "\if", optional  *)
(*      whitespace, one or more word characters (as many as there are);    *)
(*   2. "\else" not followed by a word character;                          *)
(*   3. "\fi" not followed by a word character.                            *)
(***************************************************************************)
\* the lookbehind for "\newif" and optional whitespace, at offset p
NewifBefore(t, p) ==
  \E k \in 0..p :
    /\ \A j \in k..(p - 1) : IsSpace(At(t, j))
    /\ MatchLit(t, k - Len(LitNewif), LitNewif)

NoMatch == [s |-> -1, e |-> -1]

\* the match of p that starts at offset q, or NoMatch
MatchAt(t, q) ==
  IF At(t, q) # BS THEN NoMatch
  ELSE IF MatchLit(t, q, LitIf) /\ ~NewifBefore(t, q)
            /\ SkipWord(t, SkipSpace(t, q + 3)) > SkipSpace(t, q + 3)
       THEN [s |-> q, e |-> SkipWord(t, SkipSpace(t, q + 3))]
  ELSE IF MatchLit(t, q, LitElse) /\ ~IsWord(At(t, q + 5))
       THEN [s |-> q, e |-> q + 5]
  ELSE IF MatchLit(t, q, LitFi) /\ ~IsWord(At(t, q + 3))
       THEN [s |-> q, e |-> q + 3]
  ELSE NoMatch

\* the items of p.finditer(t) from offset q on: leftmost first, each search
\* resuming where the last match ended
RECURSIVE FindIter(_, _)
FindIter(t, q) ==
  IF q >= Len(t) THEN <<>>
  ELSE IF MatchAt(t, q) # NoMatch THEN <<MatchAt(t, q)>> \o FindIter(t, MatchAt(t, q).e)
  ELSE FindIter(t, q + 1)

\* m.group()
Group(t, m) == Slice(t, m.s, m.e)

\* m.group().replace(' ', '')
NoSpace(g) == SelectSeq(g, LAMBDA c : c # " ")

StartsWith(g, lit) == Len(g) >= Len(lit) /\ SubSeq(g, 1, Len(lit)) = lit

\* the built-in exceptions list
BuiltinExceptions == {
    <<"i","f","f">>,
    <<"i","f","p","a","t","c","h","a","b","l","e">>,
    <<"i","f","p","a","t","c","h","a","b","l","e","*">>,
    <<"i","f","b","o","o","l">>,
    <<"i","f","t","o","g","g","l","e">>,
    <<"i","f","d","e","f">>,
    <<"i","f","c","s","d","e","f">>,
    <<"i","f","u","n","d","e","f">>,
    <<"i","f","c","s","u","n","d","e","f">>,
    <<"i","f","d","e","f","m","a","c","r","o">>,
    <<"i","f","c","s","m","a","c","r","o">>,
    <<"i","f","d","e","f","p","a","r","a","m">>,
    <<"i","f","c","s","p","a","r","a","m">>,
    <<"i","f","c","s","p","r","e","f","i","x">>,
    <<"i","f","d","e","f","p","r","o","t","e","c","t","e","d">>,
    <<"i","f","c","s","p","r","o","t","e","c","t","e","d">>,
    <<"i","f","d","e","f","l","t","x","p","r","o","t","e","c","t">>,
    <<"i","f","c","s","l","t","x","p","r","o","t","e","c","t">>,
    <<"i","f","d","e","f","e","m","p","t","y">>,
    <<"i","f","c","s","e","m","p","t","y">>,
    <<"i","f","d","e","f","v","o","i","d">>,
    <<"i","f","c","s","v","o","i","d">>,
    <<"i","f","d","e","f","e","q","u","a","l">>,
    <<"i","f","c","s","e","q","u","a","l">>,
    <<"i","f","d","e","f","s","t","r","i","n","g">>,
    <<"i","f","c","s","s","t","r","i","n","g">>,
    <<"i","f","d","e","f","s","t","r","e","q","u","a","l">>,
    <<"i","f","c","s","s","t","r","e","q","u","a","l">>,
    <<"i","f","d","e","f","c","o","u","n","t","e","r">>,
    <<"i","f","c","s","c","o","u","n","t","e","r">>,
    <<"i","f","l","t","x","c","o","u","n","t","e","r">>,
    <<"i","f","d","e","f","l","e","n","g","t","h">>,
    <<"i","f","c","s","l","e","n","g","t","h">>,
    <<"i","f","d","e","f","d","i","m","e","n">>,
    <<"i","f","c","s","d","i","m","e","n">>,
    <<"i","f","s","t","r","e","q","u","a","l">>,
    <<"i","f","s","t","r","e","m","p","t","y">>,
    <<"i","f","b","l","a","n","k">>,
    <<"i","f","n","u","m","c","o","m","p">>,
    <<"i","f","n","u","m","e","q","u","a","l">>,
    <<"i","f","n","u","m","o","d","d">>,
    <<"i","f","d","i","m","c","o","m","p">>,
    <<"i","f","d","i","m","e","q","u","a","l">>,
    <<"i","f","d","i","m","g","r","e","a","t","e","r">>,
    <<"i","f","d","i","m","l","e","s","s">>,
    <<"i","f","b","o","o","l","e","x","p","r">>,
    <<"i","f","b","o","o","l","e","x","p","e">>,
    <<"i","f","i","n","l","i","s","t">>,
    <<"i","f","i","n","l","i","s","t","c","s">>,
    <<"i","f","r","m","n","u","m">>,
    <<"i","f","p","d","f","s","t","r","i","n","g","u","n","i","c","o","d","e">>,
    <<"i","f","t","h","e","n","e","l","s","e">>
}

\* a faulty variant of exceptions: the names of if_exceptions are left out
exceptions_BuiltinOnly == BuiltinExceptions

exceptions == BuiltinExceptions \cup if_exceptions

(***************************************************************************)
(* The conditional tree.  A node is a dict of the code; a key that is      *)
(* absent in the dict is NoMatch here, and parent None is 0.               *)
(***************************************************************************)
Toplevel == [kind |-> "toplevel", parent |-> 0, left |-> <<>>, right |-> <<>>,
             start |-> NoMatch, els |-> NoMatch, end |-> NoMatch]

new_subtree(kind) == [kind |-> kind, parent |-> 0, left |-> <<>>, right |-> <<>>,
                      start |-> NoMatch, els |-> NoMatch, end |-> NoMatch]

\* subtree['start'] = m; add_subtree(tree, subtree): the arena after both
add_subtree(ns, cur, kind, m) ==
  LET id == Len(ns) + 1
      sub == [new_subtree(kind) EXCEPT !.start = m, !.parent = cur]
  IN Append(IF ns[cur].els = NoMatch
            THEN [ns EXCEPT ![cur].left = Append(@, id)]
            ELSE [ns EXCEPT ![cur].right = Append(@, id)],
            sub)

(***************************************************************************)
(* print_tree / print_abort.  The call for the right children passes no    *)
(* write argument, which is a TypeError at the call.                       *)
(***************************************************************************)
TokLine(indent, m) == [kind |-> "token", indent |-> indent, s |-> m.s, e |-> m.e]

MsgLine(kind) == [kind |-> kind, indent |-> 0, s |-> -1, e |-> -1]

RECURSIVE print_tree(_, _, _)
RECURSIVE print_list(_, _, _)
print_tree(ns, n, indent) ==
  LET startOut == IF ns[n].start # NoMatch THEN <<TokLine(indent, ns[n].start)>> ELSE <<>>
      leftRes == print_list(ns, ns[n].left, indent + 2)
      elseOut == IF ns[n].els # NoMatch THEN <<TokLine(indent, ns[n].els)>> ELSE <<>>
      endOut == IF ns[n].end # NoMatch THEN <<TokLine(indent, ns[n].end)>> ELSE <<>>
  IN IF leftRes.raised
     THEN [out |-> startOut \o leftRes.out, raised |-> TRUE]
     ELSE IF ns[n].right # <<>>
     THEN [out |-> startOut \o leftRes.out \o elseOut, raised |-> TRUE]
     ELSE [out |-> startOut \o leftRes.out \o elseOut \o endOut, raised |-> FALSE]

print_list(ns, ids, indent) ==
  IF ids = <<>> THEN [out |-> <<>>, raised |-> FALSE]
  ELSE LET h == print_tree(ns, Head(ids), indent)
       IN IF h.raised THEN h
          ELSE LET r == print_list(ns, Tail(ids), indent)
               IN [out |-> h.out \o r.out, raised |-> r.raised]

\* what print_abort writes, and whether it raises
print_abort(ns) ==
  LET r == print_tree(ns, 1, 9)
  IN [out |-> <<MsgLine("warning"), MsgLine("header")>> \o r.out
              \o (IF r.raised THEN <<>> ELSE <<MsgLine("hint")>>),
      raised |-> r.raised]

(***************************************************************************)
(* traverse_tree: the spans a subtree contributes, in collection order.    *)
(***************************************************************************)
RECURSIVE traverse_tree(_, _)
RECURSIVE traverse_list(_, _)
\* a faulty variant of traverse_tree: for an \iftrue with \else the span from
\* the \else to the \fi is collected before the spans of the left children
traverse_tree_ElseSpanFirst(ns, n) ==
  LET nd == ns[n]
  IN IF nd.kind = "iffalse"
     THEN IF nd.els # NoMatch
          THEN <<<<nd.start.s, nd.els.e>>>> \o traverse_list(ns, nd.right)
                 \o <<<<nd.end.s, nd.end.e>>>>
          ELSE <<<<nd.start.s, nd.end.e>>>>
     ELSE IF nd.kind = "iftrue"
     THEN IF nd.els # NoMatch
          THEN <<<<nd.start.s, nd.start.e>>, <<nd.els.s, nd.end.e>>>>
                 \o traverse_list(ns, nd.left)
          ELSE <<<<nd.start.s, nd.start.e>>, <<nd.end.s, nd.end.e>>>>
     ELSE traverse_list(ns, nd.left) \o traverse_list(ns, nd.right)

traverse_tree(ns, n) ==
  LET nd == ns[n]
  IN IF nd.kind = "iffalse"
     THEN IF nd.els # NoMatch
          THEN <<<<nd.start.s, nd.els.e>>>> \o traverse_list(ns, nd.right)
                 \o <<<<nd.end.s, nd.end.e>>>>
          ELSE <<<<nd.start.s, nd.end.e>>>>
     ELSE IF nd.kind = "iftrue"
     THEN IF nd.els # NoMatch
          THEN <<<<nd.start.s, nd.start.e>>>> \o traverse_list(ns, nd.left)
                 \o <<<<nd.els.s, nd.end.e>>>>
          ELSE <<<<nd.start.s, nd.start.e>>, <<nd.end.s, nd.end.e>>>>
     ELSE traverse_list(ns, nd.left) \o traverse_list(ns, nd.right)

traverse_list(ns, ids) ==
  IF ids = <<>> THEN <<>>
  ELSE traverse_tree(ns, Head(ids)) \o traverse_list(ns, Tail(ids))

(***************************************************************************)
(* The body of the scan loop for one match m, with current node cur.       *)
(***************************************************************************)
\* which branch of the if/elif chain the loop body takes
Branch(t, exc, ns, cur, m) ==
  LET g == Group(t, m)
      m_no_space == NoSpace(g)
  IN IF m_no_space = LitIfFalse \/ m_no_space = LitIf0 THEN "iffalse"
     ELSE IF m_no_space = LitIfTrue \/ m_no_space = LitIf1 THEN "iftrue"
     ELSE IF StartsWith(m_no_space, LitIf)
          THEN IF Tail(m_no_space) \in exc THEN "exception" ELSE "unknown"
     ELSE IF m_no_space = LitElse
          THEN IF ns[cur].parent = 0 THEN "unmatched_else"
               ELSE IF ns[cur].els # NoMatch THEN "duplicate_else"
               ELSE "else"
     ELSE IF g = LitFi
          THEN IF ns[cur].parent = 0 THEN "unmatched_fi" ELSE "fi"
     ELSE "unreachable"

Aborting == {"unmatched_else", "duplicate_else", "unmatched_fi"}

\* the arena after the loop body took branch b
StepNodes(ns, cur, m, b) ==
  IF b \in {"iffalse", "iftrue", "unknown"} THEN add_subtree(ns, cur, b, m)
  ELSE IF b = "else" THEN [ns EXCEPT ![cur].els = m]
  ELSE IF b = "fi" THEN [ns EXCEPT ![cur].end = m]
  ELSE ns

\* a faulty variant of StepTree: a \fi leaves the current node where it is
StepTree_FiStays(ns, cur, b) ==
  IF b \in {"iffalse", "iftrue", "unknown"} THEN Len(ns) + 1 ELSE cur

\* the current node after the loop body took branch b
StepTree(ns, cur, b) ==
  IF b \in {"iffalse", "iftrue", "unknown"} THEN Len(ns) + 1
  ELSE IF b = "fi" THEN ns[cur].parent
  ELSE cur

(***************************************************************************)
(* One iteration of the span-application loop on text t, and the loop.     *)
(***************************************************************************)
\* a faulty variant of EndToDel: the character after the span is removed
\* whatever it is
EndToDel_AnyCharacter(t, span) == IF span[2] < Len(t) THEN span[2] + 1 ELSE span[2]

EndToDel(t, span) ==
  IF span[2] < Len(t) /\ IsSpace(At(t, span[2])) THEN span[2] + 1 ELSE span[2]

ApplyOne(t, span) == Slice(t, 0, span[1]) \o Slice(t, EndToDel(t, span), Len(t))

\* for start, end in reversed(spans[1..k]): ...
RECURSIVE ApplyAll(_, _, _)
ApplyAll(t, spans, k) ==
  IF k = 0 THEN t ELSE ApplyAll(ApplyOne(t, spans[k]), spans, k - 1)

(***************************************************************************)
(* The whole function on a text t: how it ends and what it returns.        *)
(***************************************************************************)
RECURSIVE ScanFrom(_, _, _, _, _, _)
ScanFrom(t, exc, ms, i, ns, cur) ==
  IF i > Len(ms)
  THEN [ns |-> ns, abort |-> ns[cur].parent # 0]
  ELSE LET b == Branch(t, exc, ns, cur, ms[i])
       IN IF b \in Aborting THEN [ns |-> ns, abort |-> TRUE]
          ELSE ScanFrom(t, exc, ms, i + 1, StepNodes(ns, cur, ms[i], b),
                        StepTree(ns, cur, b))

Simplify(t, exc) ==
  LET r == ScanFrom(t, exc, FindIter(t, 0), 1, <<Toplevel>>, 1)
      spans == traverse_list(r.ns, r.ns[1].left)
  IN IF r.abort
     THEN [pc |-> IF print_abort(r.ns).raised THEN "raised" ELSE "aborted", text |-> t]
     ELSE [pc |-> "done", text |-> ApplyAll(t, spans, Len(spans))]

(***************************************************************************)
(* Inputs of _simplify_conditional_blocks.                                 *)
(***************************************************************************)
MaxChunks == 3

LitIfx == <<BS, "i", "f", "x">>
LitIff == <<BS, "i", "f", "f">>

\* the pieces a text is put together from: the directives, an unknown
\* conditional, a conditional of the built-in exceptions list, a blank
Chunks == { LitIfTrue, LitIfFalse, LitIfx, LitIff, LitElse, LitFi, <<" ">> }

\* a text may stand inside an enclosing conditional: <<opening, closing>>
Enclosings == { <<<<>>, <<>>>>, <<LitIfTrue, LitFi>>, <<LitIfFalse, LitFi>>,
                <<LitIfx, LitFi>>, <<LitIfx \o LitIfTrue, LitFi \o LitFi>> }

RECURSIVE Flatten(_)
Flatten(cs) == IF cs = <<>> THEN <<>> ELSE Head(cs) \o Flatten(Tail(cs))

\* the calls: a text in every enclosing with the default if_exceptions, and
\* bare with the user exception "ifx"
CondVariants ==
  { [pre |-> enc[1], post |-> enc[2], exc |-> {}] : enc \in Enclosings }
  \cup { [pre |-> <<>>, post |-> <<>>, exc |-> {Tail(LitIfx)}] }

Offsets(t) == [i \in 1..Len(t) |-> i - 1]

\* no call of _remove_command is under way
CommandIdle ==
  /\ cmd_input = <<>>
  /\ keep_text = FALSE
  /\ cmd_text = <<>>
  /\ all_substitutions = <<>>
  /\ has_match = FALSE
  /\ rounds = 0
  /\ rpc = "idle"

\* no call of _remove_comments_inline is under way
CommentsIdle ==
  /\ line = <<>>
  /\ segments = <<>>
  /\ seg_i = 0
  /\ line_out = <<>>
  /\ lpc = "idle"

\* no call of _search_reference is under way
SearchIdle ==
  /\ filename = <<>>
  /\ ref_contents = <<>>
  /\ strict = FALSE
  /\ patn = <<>>
  /\ ref_match = FALSE
  /\ spc = "idle"

\* no call of _resize_and_copy_figure is under way
ResizeIdle ==
  /\ fig_filename = <<>>
  /\ resize_image = FALSE
  /\ compress_pdf = FALSE
  /\ png_to_jpg_compress = FALSE
  /\ image_size = 0
  /\ im_max = 0
  /\ destination_folder = {}
  /\ process = "none"
  /\ elapsed = 0
  /\ fpc = "idle"

\* start_with=None
NoFile == <<>>

\* no call of _keep_only_referenced_tex is under way
ClosureIdle ==
  /\ tex_files = {}
  /\ contents = <<>>
  /\ start_with = NoFile
  /\ old_referenced = {}
  /\ referenced = {}
  /\ next_referenced = {}
  /\ to_visit = {}
  /\ fn = NoFile
  /\ to_search = {}
  /\ passes = 0
  /\ tex_to_copy = {}
  /\ cpc = "idle"

(***************************************************************************)
(* _simplify_conditional_blocks as a state machine.                        *)
(***************************************************************************)
Init ==
  /\ \E n \in 0..MaxChunks : \E cs \in [1..n -> Chunks] : \E v \in CondVariants :
       /\ input = v.pre \o Flatten(cs) \o v.post
       /\ if_exceptions = v.exc
  /\ text = input
  /\ kept = Offsets(input)
  /\ matches = FindIter(input, 0)
  /\ mi = 0
  /\ toplevel_tree = <<Toplevel>>
  /\ tree = 1
  /\ positions_to_delete = <<>>
  /\ todo = 0
  /\ stderr = <<>>
  /\ pc = "scan"
  /\ ClosureIdle
  /\ CommandIdle
  /\ CommentsIdle
  /\ SearchIdle
  /\ ResizeIdle

\* no call of _simplify_conditional_blocks is under way
CondIdle ==
  /\ input = <<>>
  /\ if_exceptions = {}
  /\ text = <<>>
  /\ kept = <<>>
  /\ matches = <<>>
  /\ mi = 0
  /\ toplevel_tree = <<Toplevel>>
  /\ tree = 1
  /\ positions_to_delete = <<>>
  /\ todo = 0
  /\ stderr = <<>>
  /\ pc = "idle"

Scanning == pc = "scan" /\ mi < Len(matches)

ScanEnded == pc = "scan" /\ mi = Len(matches)

m_cur == matches[mi + 1]

branch == Branch(text, exceptions, toplevel_tree, tree, m_cur)

\* the loop body went through and the loop takes the next match
LoopBody ==
  /\ toplevel_tree' = StepNodes(toplevel_tree, tree, m_cur, branch)
  /\ tree' = StepTree(toplevel_tree, tree, branch)
  /\ mi' = mi + 1
  /\ UNCHANGED <<input, if_exceptions, text, kept, matches, positions_to_delete, todo,
                 stderr, pc>>
  /\ UNCHANGED outsideCond

\* print_abort(...); return text
Abort ==
  /\ stderr' = print_abort(toplevel_tree).out
  /\ pc' = IF print_abort(toplevel_tree).raised THEN "raised" ELSE "aborted"
  /\ UNCHANGED <<input, if_exceptions, text, kept, matches, mi, toplevel_tree, tree,
                 positions_to_delete, todo>>
  /\ UNCHANGED outsideCond

ScanIfFalse == Scanning /\ branch = "iffalse" /\ LoopBody

ScanIfTrue == Scanning /\ branch = "iftrue" /\ LoopBody

ScanException == Scanning /\ branch = "exception" /\ LoopBody

ScanUnknown == Scanning /\ branch = "unknown" /\ LoopBody

ScanElse == Scanning /\ branch = "else" /\ LoopBody

ScanFi == Scanning /\ branch = "fi" /\ LoopBody

AbortUnmatchedElse == Scanning /\ branch = "unmatched_else" /\ Abort

AbortDuplicateElse == Scanning /\ branch = "duplicate_else" /\ Abort

AbortUnmatchedFi == Scanning /\ branch = "unmatched_fi" /\ Abort

AbortUnmatchedIf == ScanEnded /\ toplevel_tree[tree].parent # 0 /\ Abort

Traverse ==
  /\ ScanEnded
  /\ toplevel_tree[tree].parent = 0
  /\ positions_to_delete' = traverse_list(toplevel_tree, toplevel_tree[1].left)
  /\ todo' = Len(positions_to_delete')
  /\ pc' = "apply"
  /\ UNCHANGED <<input, if_exceptions, text, kept, matches, mi, toplevel_tree, tree,
                 stderr>>
  /\ UNCHANGED outsideCond

ApplySpan ==
  /\ pc = "apply"
  /\ todo > 0
  /\ text' = ApplyOne(text, positions_to_delete[todo])
  /\ kept' = Slice(kept, 0, positions_to_delete[todo][1])
               \o Slice(kept, EndToDel(text, positions_to_delete[todo]), Len(kept))
  /\ todo' = todo - 1
  /\ UNCHANGED <<input, if_exceptions, matches, mi, toplevel_tree, tree,
                 positions_to_delete, stderr, pc>>
  /\ UNCHANGED outsideCond

Return ==
  /\ pc = "apply"
  /\ todo = 0
  /\ pc' = "done"
  /\ UNCHANGED <<input, if_exceptions, text, kept, matches, mi, toplevel_tree, tree,
                 positions_to_delete, todo, stderr>>
  /\ UNCHANGED outsideCond

Next ==
  \/ ScanIfFalse
  \/ ScanIfTrue
  \/ ScanException
  \/ ScanUnknown
  \/ ScanElse
  \/ ScanFi
  \/ AbortUnmatchedElse
  \/ AbortDuplicateElse
  \/ AbortUnmatchedFi
  \/ AbortUnmatchedIf
  \/ Traverse
  \/ ApplySpan
  \/ Return

Spec == Init /\ [][Next]_vars

(***************************************************************************)
(* _keep_only_referenced_tex.                                              *)
(***************************************************************************)
\* os.path.splitext(fn)[0]: fn without its extension; the extension starts
\* at the last dot of the last path component, leading dots not counted
LastSlash(f) ==
  LET S == { i \in 1..Len(f) : f[i] = "/" }
  IN IF S = {} THEN 0 ELSE CHOOSE i \in S : \A j \in S : j <= i

ExtDot(f) ==
  LET D == { i \in (LastSlash(f) + 1)..Len(f) :
               /\ f[i] = "."
               /\ \E j \in (LastSlash(f) + 1)..(i - 1) : f[j] # "." }
  IN IF D = {} THEN 0 ELSE CHOOSE i \in D : \A j \in D : j <= i

Splitext0(f) == IF ExtDot(f) = 0 THEN f ELSE SubSeq(f, 1, ExtDot(f) - 1)

\* '\n'.join(lines)
RECURSIVE JoinLines(_)
JoinLines(lines) ==
  IF lines = <<>> THEN <<>>
  ELSE IF Len(lines) = 1 THEN lines[1]
  ELSE lines[1] \o <<"\n">> \o JoinLines(Tail(lines))

\* the pattern pat, read as a regular expression, matches in t at offset p:
\* a dot stands for any character but a newline, any other character of a
\* file name for itself
PatAt(t, p, pat) ==
  /\ p + Len(pat) <= Len(t)
  /\ \A j \in 1..Len(pat) :
       IF pat[j] = "." THEN t[p + j] # "\n" ELSE t[p + j] = pat[j]

\* a faulty variant of RefEnd: the closing brace is left out of the class
RefEnd_DotOnly == {"."}

\* the character class [.}] of the pattern
RefEnd == {".", "}"}

\* regex.search(r'(?<!\w)(' + name + r'[.}])', t) finds a match
SearchName(name, t) ==
  \E p \in 0..Len(t) :
    /\ ~IsWord(At(t, p - 1))
    /\ PatAt(t, p, name)
    /\ At(t, p + Len(name)) \in RefEnd

\* the condition of the if in the loops, for files f and f2
Mentions(cts, f, f2) == SearchName(Splitext0(f), JoinLines(cts[f2]))

\* a faulty variant of InitialReferenced: start_with is ignored
InitialReferenced_RootOnly(in_root, sw) == in_root

\* referenced as first assigned
InitialReferenced(in_root, sw) == IF sw # NoFile THEN {sw} ELSE in_root

\* a faulty variant of SearchResult: the file visited last decides
SearchResult_LastDecides(cts, nxt, f, f2) ==
  IF Mentions(cts, f, f2) THEN nxt \cup {f} ELSE nxt \ {f}

\* next_referenced after the body of "for fn2 in referenced" ran for f and f2
SearchResult(cts, nxt, f, f2) == IF Mentions(cts, f, f2) THEN nxt \cup {f} ELSE nxt

InRoot(f) == LastSlash(f) = 0

tex_in_root == { f \in tex_files : InRoot(f) }

tex_not_in_root == { f \in tex_files : ~InRoot(f) }

(***************************************************************************)
(* Inputs of _keep_only_referenced_tex.                                    *)
(***************************************************************************)
MaxFiles == 3

FileMain == <<"m", ".", "t", "e", "x">>
FileA == <<"a", ".", "t", "e", "x">>
FileSubA == <<"s", "/", "a", ".", "t", "e", "x">>
FileBa == <<"b", "a", ".", "t", "e", "x">>

\* the files a project may hold: it holds the first n of them
AllFiles == <<FileMain, FileA, FileSubA, FileBa, <<"s", "/", "b", "a", ".", "t", "e", "x">>>>

LineInputA == <<BS, "i", "n", "p", "u", "t", "{", "a", "}">>
LineInputSubA == <<BS, "i", "n", "p", "u", "t", "{", "s", "/", "a", "}">>
LineInputBa == <<BS, "i", "n", "p", "u", "t", "{", "b", "a", "}">>
LineInputMainTex == <<BS, "i", "n", "p", "u", "t", "{", "m", ".", "t", "e", "x", "}">>

\* what a file may hold
ContentChoices == { <<LineInputA>>, <<LineInputSubA>>, <<LineInputBa, LineInputMainTex>> }

(***************************************************************************)
(* _keep_only_referenced_tex as a state machine, followed by the call of   *)
(* _add_root_tex_files that run_arxiv_cleaner makes when main_tex is None. *)
(***************************************************************************)
\* the state when the while-loop is entered
ClosureInit ==
  /\ \E n \in 0..MaxFiles : tex_files = { AllFiles[i] : i \in 1..n }
  /\ contents \in [tex_files -> ContentChoices]
  /\ start_with \in tex_files \cup {NoFile}
  /\ old_referenced = tex_in_root \cup tex_not_in_root
  /\ referenced = InitialReferenced(tex_in_root, start_with)
  /\ next_referenced = referenced
  /\ to_visit = old_referenced
  /\ fn = NoFile
  /\ to_search = {}
  /\ passes = 0
  /\ tex_to_copy = {}
  /\ cpc = "pass"
  /\ CondIdle
  /\ CommandIdle
  /\ CommentsIdle
  /\ SearchIdle
  /\ ResizeIdle

\* "for fn in old_referenced" takes its next file, the set in any order, and
\* "for fn2 in referenced" starts
NextFile ==
  /\ cpc = "pass"
  /\ to_search = {}
  /\ \E f \in to_visit :
       /\ fn' = f
       /\ to_visit' = to_visit \ {f}
  /\ to_search' = referenced
  /\ UNCHANGED <<tex_files, contents, start_with, old_referenced, referenced,
                 next_referenced, passes, tex_to_copy, cpc>>
  /\ UNCHANGED outsideClosure

\* one iteration of "for fn2 in referenced", the set in any order
Search ==
  /\ cpc = "pass"
  /\ \E f2 \in to_search :
       /\ next_referenced' = SearchResult(contents, next_referenced, fn, f2)
       /\ to_search' = to_search \ {f2}
  /\ UNCHANGED <<tex_files, contents, start_with, old_referenced, referenced, to_visit,
                 fn, passes, tex_to_copy, cpc>>
  /\ UNCHANGED outsideClosure

PassEnded == cpc = "pass" /\ to_visit = {} /\ to_search = {}

\* the pass added nothing: splits['tex_to_copy'] = list(referenced); return
PassReturn ==
  /\ PassEnded
  /\ referenced = next_referenced
  /\ tex_to_copy' = referenced
  /\ passes' = passes + 1
  /\ cpc' = "returned"
  /\ UNCHANGED <<tex_files, contents, start_with, old_referenced, referenced,
                 next_referenced, to_visit, fn, to_search>>
  /\ UNCHANGED outsideClosure

\* a faulty variant of PassAgain: referenced is not replaced by the copy
PassAgain_NoCopy ==
  /\ PassEnded
  /\ referenced # next_referenced
  /\ to_visit' = old_referenced
  /\ passes' = passes + 1
  /\ UNCHANGED <<tex_files, contents, start_with, old_referenced, referenced,
                 next_referenced, fn, to_search, tex_to_copy, cpc>>
  /\ UNCHANGED outsideClosure

\* the pass added something: referenced = next_referenced.copy(), next pass
PassAgain ==
  /\ PassEnded
  /\ referenced # next_referenced
  /\ referenced' = next_referenced
  /\ to_visit' = old_referenced
  /\ passes' = passes + 1
  /\ UNCHANGED <<tex_files, contents, start_with, old_referenced, next_referenced,
                 fn, to_search, tex_to_copy, cpc>>
  /\ UNCHANGED outsideClosure

\* if parameters['main_tex'] is None: _add_root_tex_files(splits)
AddRootTexFiles ==
  /\ cpc = "returned"
  /\ start_with = NoFile
  /\ tex_to_copy' = tex_to_copy \cup tex_in_root
  /\ cpc' = "added"
  /\ UNCHANGED <<tex_files, contents, start_with, old_referenced, referenced,
                 next_referenced, to_visit, fn, to_search, passes>>
  /\ UNCHANGED outsideClosure

ClosureNext ==
  \/ NextFile
  \/ Search
  \/ PassReturn
  \/ PassAgain
  \/ AddRootTexFiles

SpecClosure == ClosureInit /\ [][ClosureNext]_vars

(***************************************************************************)
(* _remove_command.  base_pattern is: the command, any number of bracket   *)
(* groups (each reluctant, no newline inside), one brace group whose       *)
(* braces balance, any number of bracket groups.                           *)
(***************************************************************************)
\* the offset after the brace that closes the group opened before offset i,
\* depth braces being open; -1 when the braces do not balance
RECURSIVE BalScan(_, _, _)
BalScan(t, i, depth) ==
  IF i >= Len(t) THEN -1
  ELSE IF At(t, i) = "{" THEN BalScan(t, i + 1, depth + 1)
  ELSE IF At(t, i) = "}"
       THEN IF depth = 1 THEN i + 1 ELSE BalScan(t, i + 1, depth - 1)
  ELSE BalScan(t, i + 1, depth)

\* the end of the balanced brace group that starts at offset q, or -1
BalancedEnd(t, q) == IF At(t, q) = "{" THEN BalScan(t, q + 1, 1) ELSE -1

NoNewline(t, a, b) == \A k \in a..(b - 1) : At(t, k) # "\n"

\* the leading bracket groups can cover exactly t[a:q]
LeadingGroups(t, a, q) ==
  \/ q = a
  \/ /\ q - 1 > a
     /\ At(t, a) = "["
     /\ At(t, q - 1) = "]"
     /\ NoNewline(t, a, q)

\* the offsets at which the brace group of a match whose command ends at a
\* can start
ArgStarts(t, a) ==
  { q \in a..Len(t) : LeadingGroups(t, a, q) /\ BalancedEnd(t, q) # -1 }

\* the one the regex engine settles on: groups are tried before the brace,
\* each group as short as possible
ArgStart(t, a) == CHOOSE q \in ArgStarts(t, a) : \A r \in ArgStarts(t, a) : q <= r

\* the end of the trailing bracket groups that start at offset r
RECURSIVE TrailEnd(_, _)
TrailEnd(t, r) ==
  LET C == { j \in (r + 1)..(Len(t) - 1) : At(t, j) = "]" /\ NoNewline(t, r, j) }
  IN IF At(t, r) = "[" /\ C # {}
     THEN TrailEnd(t, (CHOOSE j \in C : \A k \in C : j <= k) + 1)
     ELSE r

\* the match of base_pattern that starts at offset p, or NoMatch
CmdMatchAt(t, p, command) ==
  IF MatchLit(t, p, <<BS>> \o command) /\ ArgStarts(t, p + 1 + Len(command)) # {}
  THEN [s |-> p,
        e |-> TrailEnd(t, BalancedEnd(t, ArgStart(t, p + 1 + Len(command))))]
  ELSE NoMatch

\* the items of regex.finditer(base_pattern, t) from offset p on
RECURSIVE CmdFindIter(_, _, _)
CmdFindIter(t, p, command) ==
  IF p >= Len(t) THEN <<>>
  ELSE IF CmdMatchAt(t, p, command) # NoMatch
  THEN <<CmdMatchAt(t, p, command)>> \o CmdFindIter(t, CmdMatchAt(t, p, command).e, command)
  ELSE CmdFindIter(t, p + 1, command)

\* extract_text_inside_curly_braces: group 1 of the first balanced brace
\* group found in the string, '' when there is none
extract_text_inside_curly_braces(sub) ==
  LET S == { i \in 0..(Len(sub) - 1) : BalancedEnd(sub, i) # -1 }
      i0 == CHOOSE i \in S : \A j \in S : i <= j
  IN IF S = {} THEN <<>> ELSE Slice(sub, i0 + 1, BalancedEnd(sub, i0) - 1)

\* the test of lines 146-154: there is a newline after offset e and nothing
\* but whitespace before it
BlankUntilNewline(t, e) ==
  /\ e < Len(t)
  /\ \E nl \in e..(Len(t) - 1) :
       /\ At(t, nl) = "\n"
       /\ NoNewline(t, e, nl)
       /\ \A k \in e..(nl - 1) : IsSpace(At(t, k))

\* a faulty variant of NewSubstring: the percent sign is put in whatever the mode
NewSubstring_PercentInBothModes(t, m, keep) ==
  IF BlankUntilNewline(t, m.e) THEN <<"%">>
  ELSE IF ~keep THEN <<>>
  ELSE extract_text_inside_curly_braces(Slice(t, m.s, m.e))

\* new_substring for match m of text t
NewSubstring(t, m, keep) ==
  IF BlankUntilNewline(t, m.e) /\ ~keep THEN <<"%">>
  ELSE IF ~keep THEN <<>>
  ELSE extract_text_inside_curly_braces(Slice(t, m.s, m.e))

\* the list the for-loop over the matches builds
RECURSIVE Substitutions(_, _, _)
Substitutions(t, ms, keep) ==
  IF ms = <<>> THEN <<>>
  ELSE <<[s |-> ms[1].s, e |-> ms[1].e, new |-> NewSubstring(t, ms[1], keep)]>>
         \o Substitutions(t, Tail(ms), keep)

\* for start, end, new_substring in reversed(subs[1..k]): ...
RECURSIVE Substitute(_, _, _)
Substitute(t, subs, k) ==
  IF k = 0 THEN t
  ELSE Substitute(Slice(t, 0, subs[k].s) \o subs[k].new \o Slice(t, subs[k].e, Len(t)),
                  subs, k - 1)

(***************************************************************************)
(* Inputs of _remove_command.                                              *)
(***************************************************************************)
MaxPieces == 3

\* the command argument
Command == <<"r", "e", "d">>

\* the pieces a text is put together from
Pieces == { <<BS, "r", "e", "d", "{">>, <<"}">>, <<"{">>, <<"a">>, <<" ">>, <<"\n">>,
            <<BS, "r", "e", "d", "{", "a", "}">>,
            <<BS, "r", "e", "d", "[", "{", "b", "}", "]", "{">>, <<"}", "[", "b", "]">> }

\* a text may stand inside the argument of an enclosing command, or before
\* the blank end of a line
CmdEnclosings == { <<<<>>, <<>>>>, <<<<BS, "r", "e", "d", "{", "a", " ">>, <<"}">>>>,
                   <<<<>>, <<" ", "\n">>>> }

(***************************************************************************)
(* _remove_command as a state machine.                                     *)
(***************************************************************************)
CommandInit ==
  /\ \E n \in 0..MaxPieces : \E cs \in [1..n -> Pieces] : \E enc \in CmdEnclosings :
       cmd_input = enc[1] \o Flatten(cs) \o enc[2]
  /\ keep_text \in BOOLEAN
  /\ cmd_text = cmd_input
  /\ all_substitutions = <<>>
  /\ has_match = FALSE
  /\ rounds = 0
  /\ rpc = "find"
  /\ CondIdle
  /\ ClosureIdle
  /\ CommentsIdle
  /\ SearchIdle
  /\ ResizeIdle

\* the for-loop over regex.finditer(base_pattern, text)
FindMatches ==
  /\ rpc = "find"
  /\ all_substitutions' = Substitutions(cmd_text, CmdFindIter(cmd_text, 0, Command), keep_text)
  /\ has_match' = (CmdFindIter(cmd_text, 0, Command) # <<>>)
  /\ rpc' = "substitute"
  /\ UNCHANGED <<cmd_input, keep_text, cmd_text, rounds>>
  /\ UNCHANGED outsideCommand

\* the for-loop over reversed(all_substitutions)
ApplySubstitutions ==
  /\ rpc = "substitute"
  /\ cmd_text' = Substitute(cmd_text, all_substitutions, Len(all_substitutions))
  /\ rounds' = rounds + 1
  /\ rpc' = "check"
  /\ UNCHANGED <<cmd_input, keep_text, all_substitutions, has_match>>
  /\ UNCHANGED outsideCommand

\* if not keep_text or not has_match: break; return text
Break ==
  /\ rpc = "check"
  /\ ~keep_text \/ ~has_match
  /\ rpc' = "returned"
  /\ UNCHANGED <<cmd_input, keep_text, cmd_text, all_substitutions, has_match, rounds>>
  /\ UNCHANGED outsideCommand

\* otherwise the while-loop goes round again
LoopAgain ==
  /\ rpc = "check"
  /\ keep_text /\ has_match
  /\ rpc' = "find"
  /\ UNCHANGED <<cmd_input, keep_text, cmd_text, all_substitutions, has_match, rounds>>
  /\ UNCHANGED outsideCommand

CommandNext ==
  \/ FindMatches
  \/ ApplySubstitutions
  \/ Break
  \/ LoopAgain

SpecCommand == CommandInit /\ [][CommandNext]_vars

(***************************************************************************)
(* _remove_comments_inline.                                                *)
(***************************************************************************)
LitAutoIgnore == <<"a", "u", "t", "o", "-", "i", "g", "n", "o", "r", "e">>

LitUrl == <<BS, "u", "r", "l", "{">>

\* the end of the match of (%\s*auto-ignore) that starts at offset p, or -1
AutoIgnoreEnd(t, p) ==
  IF At(t, p) = "%" /\ MatchLit(t, SkipSpace(t, p + 1), LitAutoIgnore)
  THEN SkipSpace(t, p + 1) + Len(LitAutoIgnore)
  ELSE -1

\* regex.search(auto_ignore_pattern, t) finds a match at or after offset p
AutoIgnoreFrom(t, p) == \E q \in p..(Len(t) - 1) : AutoIgnoreEnd(t, q) # -1

\* the offset at which .* stops: the next newline at or after p, or the end
RECURSIVE LineEnd(_, _)
LineEnd(t, p) == IF p >= Len(t) \/ At(t, p) = "\n" THEN p ELSE LineEnd(t, p + 1)

\* regex.sub(auto_ignore_pattern, r'\1', t), from offset p on
RECURSIVE SubAutoIgnore(_, _)
SubAutoIgnore(t, p) ==
  IF p >= Len(t) THEN <<>>
  ELSE IF AutoIgnoreEnd(t, p) # -1
  THEN Slice(t, p, AutoIgnoreEnd(t, p)) \o SubAutoIgnore(t, LineEnd(t, AutoIgnoreEnd(t, p)))
  ELSE <<At(t, p)>> \o SubAutoIgnore(t, p + 1)

\* t.lstrip(chars)
RECURSIVE Lstrip(_, _)
Lstrip(t, chars) == IF t # <<>> /\ Head(t) \in chars THEN Lstrip(Tail(t), chars) ELSE t

StartsWithPercent(t) == t # <<>> /\ Head(t) = "%"

\* text.lstrip(' ').lstrip('\t').startswith('%')
IsCommentLine(t) == StartsWithPercent(Lstrip(Lstrip(t, {" "}), {"\t"}))

\* the first offset at or after p that holds a brace, or the length of t
RECURSIVE NextBrace(_, _)
NextBrace(t, p) ==
  IF p >= Len(t) \/ At(t, p) \in {"{", "}"} THEN p ELSE NextBrace(t, p + 1)

\* the end of the match of url_pattern that starts at offset p, or -1.  Each
\* turn of the starred atomic group takes one character that is no brace
\* before it would try the recursion, so the match is \url{, characters that
\* are no braces, }.
UrlEnd(t, p) ==
  IF MatchLit(t, p, LitUrl) /\ At(t, NextBrace(t, p + Len(LitUrl))) = "}"
  THEN NextBrace(t, p + Len(LitUrl)) + 1
  ELSE -1

\* regex.split(f'({url_pattern})', t): the text from offset a on, scanned
\* from offset p on
RECURSIVE SplitUrl(_, _, _)
SplitUrl(t, a, p) ==
  IF p >= Len(t) THEN <<Slice(t, a, Len(t))>>
  ELSE IF UrlEnd(t, p) # -1
  THEN <<Slice(t, a, p), Slice(t, p, UrlEnd(t, p))>> \o SplitUrl(t, UrlEnd(t, p), UrlEnd(t, p))
  ELSE SplitUrl(t, a, p + 1)

\* regex.match(url_pattern, segment)
IsUrlSegment(segment) == UrlEnd(segment, 0) # -1

\* the offsets of the matches of (?<!\\)% in segment
UnescapedPercents(segment) ==
  { p \in 0..(Len(segment) - 1) : At(segment, p) = "%" /\ At(segment, p - 1) # BS }

\* a faulty variant of remove_comments: the segment is cut before the percent
remove_comments_CutBefore(segment) ==
  IF StartsWithPercent(Lstrip(segment, SpaceChars)) THEN [text |-> <<>>, match |-> TRUE]
  ELSE IF UnescapedPercents(segment) # {}
  THEN [text |-> Slice(segment, 0,
                       CHOOSE p \in UnescapedPercents(segment) :
                         \A q \in UnescapedPercents(segment) : p <= q) \o <<"\n">>,
        match |-> TRUE]
  ELSE [text |-> segment, match |-> FALSE]

\* remove_comments(segment): the pair it returns
remove_comments(segment) ==
  IF StartsWithPercent(Lstrip(segment, SpaceChars)) THEN [text |-> <<>>, match |-> TRUE]
  ELSE IF UnescapedPercents(segment) # {}
  THEN [text |-> Slice(segment, 0,
                       (CHOOSE p \in UnescapedPercents(segment) :
                          \A q \in UnescapedPercents(segment) : p <= q) + 1) \o <<"\n">>,
        match |-> TRUE]
  ELSE [text |-> segment, match |-> FALSE]

\* ''.join(segments)
RECURSIVE JoinSegments(_)
JoinSegments(segs) == IF segs = <<>> THEN <<>> ELSE Head(segs) \o JoinSegments(Tail(segs))

\* t.endswith(suffix)
EndsWith(t, suffix) ==
  Len(suffix) <= Len(t) /\ SubSeq(t, Len(t) - Len(suffix) + 1, Len(t)) = suffix

\* a faulty variant of FinalReturn: no newline is appended
FinalReturn_AsIs(final_text) == final_text

\* the value of the final return statement
FinalReturn(final_text) ==
  IF EndsWith(final_text, <<"\n">>) \/ EndsWith(final_text, <<BS, "n">>)
  THEN final_text
  ELSE final_text \o <<"\n">>

(***************************************************************************)
(* Inputs of _remove_comments_inline: one line of a file as readlines()    *)
(* gives it, with its newline or, for a last line, without.                *)
(***************************************************************************)
MaxLinePieces == 3

LinePieces == { <<"a">>, <<" ">>, <<"\t">>, <<"%">>, <<BS>>, LitUrl, <<"}">>, <<"n">>,
                LitAutoIgnore }

\* a line may start with a url that holds a percent sign
LinePrefixes == { <<>>, LitUrl \o <<"a", "%", "}">> }

LineEndings == { <<>>, <<"\n">> }

(***************************************************************************)
(* _remove_comments_inline as a state machine.                             *)
(***************************************************************************)
CommentsInit ==
  /\ \E n \in 0..MaxLinePieces : \E cs \in [1..n -> LinePieces] :
       \E pre \in LinePrefixes : \E nl \in LineEndings :
         line = pre \o Flatten(cs) \o nl
  /\ segments = <<>>
  /\ seg_i = 0
  /\ line_out = <<>>
  /\ lpc = "start"
  /\ CondIdle
  /\ ClosureIdle
  /\ CommandIdle
  /\ SearchIdle
  /\ ResizeIdle

\* if regex.search(auto_ignore_pattern, text): return regex.sub(...)
ReturnAutoIgnore ==
  /\ lpc = "start"
  /\ AutoIgnoreFrom(line, 0)
  /\ line_out' = SubAutoIgnore(line, 0)
  /\ lpc' = "auto_ignore"
  /\ UNCHANGED <<line, segments, seg_i>>
  /\ UNCHANGED outsideComments

\* if text.lstrip(' ').lstrip('\t').startswith('%'): return ''
ReturnCommentLine ==
  /\ lpc = "start"
  /\ ~AutoIgnoreFrom(line, 0)
  /\ IsCommentLine(line)
  /\ line_out' = <<>>
  /\ lpc' = "comment_line"
  /\ UNCHANGED <<line, segments, seg_i>>
  /\ UNCHANGED outsideComments

\* segments = regex.split(f'({url_pattern})', text)
SplitSegments ==
  /\ lpc = "start"
  /\ ~AutoIgnoreFrom(line, 0)
  /\ ~IsCommentLine(line)
  /\ segments' = SplitUrl(line, 0, 0)
  /\ seg_i' = 0
  /\ lpc' = "loop"
  /\ UNCHANGED <<line, line_out>>
  /\ UNCHANGED outsideComments

\* an iteration of the for-loop on a segment that is a \url{} tag
SkipUrlSegment ==
  /\ lpc = "loop"
  /\ seg_i < Len(segments)
  /\ IsUrlSegment(segments[seg_i + 1])
  /\ seg_i' = seg_i + 1
  /\ UNCHANGED <<line, segments, line_out, lpc>>
  /\ UNCHANGED outsideComments

\* an iteration on a segment in which remove_comments finds no comment
KeepSegment ==
  /\ lpc = "loop"
  /\ seg_i < Len(segments)
  /\ ~IsUrlSegment(segments[seg_i + 1])
  /\ ~remove_comments(segments[seg_i + 1]).match
  /\ segments' = [segments EXCEPT ![seg_i + 1] = remove_comments(segments[seg_i + 1]).text]
  /\ seg_i' = seg_i + 1
  /\ UNCHANGED <<line, line_out, lpc>>
  /\ UNCHANGED outsideComments

\* an iteration on a segment in which it finds one: the later segments are
\* dropped and the loop is left
CutSegment ==
  /\ lpc = "loop"
  /\ seg_i < Len(segments)
  /\ ~IsUrlSegment(segments[seg_i + 1])
  /\ remove_comments(segments[seg_i + 1]).match
  /\ segments' = SubSeq(segments, 1, seg_i) \o <<remove_comments(segments[seg_i + 1]).text>>
  /\ lpc' = "join"
  /\ UNCHANGED <<line, seg_i, line_out>>
  /\ UNCHANGED outsideComments

\* the for-loop runs out of segments
LoopEnd ==
  /\ lpc = "loop"
  /\ seg_i = Len(segments)
  /\ lpc' = "join"
  /\ UNCHANGED <<line, segments, seg_i, line_out>>
  /\ UNCHANGED outsideComments

\* final_text = ''.join(segments); return ...
ReturnFinal ==
  /\ lpc = "join"
  /\ line_out' = FinalReturn(JoinSegments(segments))
  /\ lpc' = "final"
  /\ UNCHANGED <<line, segments, seg_i>>
  /\ UNCHANGED outsideComments

CommentsNext ==
  \/ ReturnAutoIgnore
  \/ ReturnCommentLine
  \/ SplitSegments
  \/ SkipUrlSegment
  \/ KeepSegment
  \/ CutSegment
  \/ LoopEnd
  \/ ReturnFinal

SpecComments == CommentsInit /\ [][CommentsNext]_vars

(***************************************************************************)
(* _search_reference.  A pattern is a sequence of items: a character taken *)
(* literally, the dot that stands for any character, the padding [\s%]*,   *)
(* and an optional group (...)? around a pattern.                          *)
(***************************************************************************)
Lit(c) == [k |-> "lit", c |-> c]

AnyChar == [k |-> "any"]

Padding == [k |-> "pad"]

Optional(body) == [k |-> "opt", body |-> body]

\* a faulty variant of Lower: the cases of letters are told apart
Lower_CaseKept(c) == c

\* regex.IGNORECASE: the lower-case letter of c, for the letters of the model
Lower(c) ==
  CASE c = "F" -> "f" [] c = "I" -> "i" [] c = "G" -> "g"
    [] c = "P" -> "p" [] c = "D" -> "d" [] OTHER -> c

PadChars == SpaceChars \cup {"%"}

\* the offsets at which a match of pattern pat that starts at offset p of t
\* can end
RECURSIVE Ends(_, _, _)
Ends(pat, t, p) ==
  IF Len(pat) = 0 THEN {p}
  ELSE IF Head(pat).k = "lit"
  THEN IF p < Len(t) /\ Lower(At(t, p)) = Lower(Head(pat).c)
       THEN Ends(Tail(pat), t, p + 1) ELSE {}
  ELSE IF Head(pat).k = "any"
  THEN IF p < Len(t) /\ At(t, p) # "\n" THEN Ends(Tail(pat), t, p + 1) ELSE {}
  ELSE IF Head(pat).k = "pad"
  THEN UNION { Ends(Tail(pat), t, q) :
                 q \in { r \in p..Len(t) : \A j \in p..(r - 1) : At(t, j) \in PadChars } }
  ELSE Ends(Tail(pat), t, p)
         \cup UNION { Ends(Tail(pat), t, q) : q \in Ends(Head(pat).body, t, p) }

\* regex.search(pat, t, regex.IGNORECASE) is not None
RegexSearch(pat, t) == \E p \in 0..Len(t) : Ends(pat, t, p) # {}

\* regex.escape(s), and filename.replace('.', r'\.') for a file name of
\* letters, dots and slashes: every character stands for itself
Escape(s) == [j \in 1..Len(s) |-> Lit(s[j])]

\* pathlib.Path(f).name, .suffix and .stem
PathName(f) == SubSeq(f, LastSlash(f) + 1, Len(f))

PathSuffix(f) == IF ExtDot(f) = 0 THEN <<>> ELSE SubSeq(f, ExtDot(f), Len(f))

PathStem(f) == SubSeq(f, LastSlash(f) + 1, Len(f) - Len(PathSuffix(f)))

\* the names of reversed(pathlib.Path(f).parents): the name of Path('.'),
\* which is '', then the directories from the outermost one on
RECURSIVE DirNames(_)
DirNames(f) ==
  IF LastSlash(f) = 0 THEN <<>>
  ELSE LET first == CHOOSE j \in 1..Len(f) : f[j] = "/" /\ \A h \in 1..(j - 1) : f[h] # "/"
       IN <<SubSeq(f, 1, first - 1)>> \o DirNames(SubSeq(f, first + 1, Len(f)))

ParentNames(f) == <<<<>>>> \o DirNames(f)

\* path_prefix_regex after the loop over the first n fragments; a fragment
\* is skipped when its name is '.', which the name of Path('.') is not
RECURSIVE PathPrefixRegex(_, _)
PathPrefixRegex(names, n) ==
  IF n = 0 THEN <<>>
  ELSE IF names[n] = <<".">> THEN PathPrefixRegex(names, n - 1)
  ELSE <<Optional(PathPrefixRegex(names, n - 1) \o Escape(names[n]) \o <<Lit("/")>>)>>

\* filename_regex of the two modes, before the './' prefix is added
StrictFilenameRegex(f) == Escape(f)

LooseFilenameRegex(f) ==
  PathPrefixRegex(ParentNames(f), Len(ParentNames(f)))
    \o Escape(PathStem(f)) \o <<Optional(Escape(PathSuffix(f)))>>

\* r'(.' + os.sep + r')?' + filename_regex
WithDotSlash(re) == <<Optional(<<AnyChar, Lit("/")>>)>> \o re

\* patn of the two modes
LoosePattern(f) ==
  <<Lit("{"), Padding>> \o WithDotSlash(LooseFilenameRegex(f)) \o <<Padding, Lit("}")>>

StrictPattern(f) ==
  <<Optional(<<Lit("{")>>), Padding>> \o WithDotSlash(StrictFilenameRegex(f))
    \o <<Padding, Optional(<<Lit("}")>>)>>

(***************************************************************************)
(* Inputs of _search_reference.                                            *)
(***************************************************************************)
MaxRefPieces == 3

FilePlotsFig == <<"p", "l", "o", "t", "s", "/", "f", "i", "g", ".", "p", "d", "f">>

FileFig == <<"f", "i", "g", ".", "p", "d", "f">>

Filenames == { FilePlotsFig, FileFig }

RefPieces == { <<"p", "l", "o", "t", "s", "/">>, <<"f", "i", "g">>, <<".", "p", "d", "f">>,
               <<"F", "I", "G", ".", "P", "D", "F">>, <<"x">>, <<".", "/">>, <<"{">>,
               <<"}">>, <<"p", "d", "f">> }

\* what the pieces stand in: nothing, braces, braces with padding
RefEnclosings == { <<<<>>, <<>>>>, <<<<"{">>, <<"}">>>>, <<<<"{", " ">>, <<"%", "}">>>> }

(***************************************************************************)
(* _search_reference as a state machine.                                   *)
(***************************************************************************)
SearchInit ==
  /\ filename \in Filenames
  /\ \E n \in 0..MaxRefPieces : \E cs \in [1..n -> RefPieces] : \E enc \in RefEnclosings :
       ref_contents = enc[1] \o Flatten(cs) \o enc[2]
  /\ strict \in BOOLEAN
  /\ patn = <<>>
  /\ ref_match = FALSE
  /\ spc = "start"
  /\ CondIdle
  /\ ClosureIdle
  /\ CommandIdle
  /\ CommentsIdle
  /\ ResizeIdle

\* if strict: ... patn = r'(\{{)?[\s%]*{}[\s%]*(\}})?'.format(filename_regex)
BuildStrictPattern ==
  /\ spc = "start"
  /\ strict
  /\ patn' = StrictPattern(filename)
  /\ spc' = "search"
  /\ UNCHANGED <<filename, ref_contents, strict, ref_match>>
  /\ UNCHANGED outsideSearch

\* else: ... patn = r'\{{[\s%]*{}[\s%]*\}}'.format(filename_regex)
BuildLoosePattern ==
  /\ spc = "start"
  /\ ~strict
  /\ patn' = LoosePattern(filename)
  /\ spc' = "search"
  /\ UNCHANGED <<filename, ref_contents, strict, ref_match>>
  /\ UNCHANGED outsideSearch

\* return regex.search(patn, contents, regex.IGNORECASE)
ReturnSearch ==
  /\ spc = "search"
  /\ ref_match' = RegexSearch(patn, ref_contents)
  /\ spc' = "returned"
  /\ UNCHANGED <<filename, ref_contents, strict, patn>>
  /\ UNCHANGED outsideSearch

SearchNext ==
  \/ BuildStrictPattern
  \/ BuildLoosePattern
  \/ ReturnSearch

SpecSearch == SearchInit /\ [][SearchNext]_vars

(***************************************************************************)
(* _resize_and_copy_figure and _resize_pdf_figure.  The destination folder *)
(* is the set of the files in it, a file being its name and what it holds. *)
(* What the external tool does is not in the code: while it runs it may    *)
(* begin its output file, it may exit at any moment, with or without a     *)
(* whole output file, and it may run on past the wait.                     *)
(***************************************************************************)
\* timeout=10
timeout == 10

\* os.path.splitext(f)[1].lower()
ExtLower(f) ==
  IF ExtDot(f) = 0 THEN <<>>
  ELSE [j \in 1..(Len(f) - ExtDot(f) + 1) |-> Lower(f[ExtDot(f) + j - 1])]

ExtJpg == <<".", "j", "p", "g">>

ExtPng == <<".", "p", "n", "g">>

ExtPdf == <<".", "p", "d", "f">>

\* the condition of the first branch, and of the second
IsResizedImage ==
  resize_image /\ ExtLower(fig_filename) \in {ExtJpg, <<".", "j", "p", "e", "g">>, ExtPng}

IsCompressedPdf == ~IsResizedImage /\ compress_pdf /\ ExtLower(fig_filename) = ExtPdf

File(name, holds) == [name |-> name, holds |-> holds]

\* the folder after a file is written under a name, whatever was there
WriteFile(folder, name, holds) ==
  { f \in folder : f.name # name } \cup {File(name, holds)}

\* what im.save writes: the image resized when it is larger than image_size
Saved == IF im_max > image_size THEN "resized" ELSE "reencoded"

(***************************************************************************)
(* Inputs of _resize_and_copy_figure.                                      *)
(***************************************************************************)
MaxImageSide == 2

FigureNames == { <<"f", ".", "p", "d", "f">>, <<"f", ".", "P", "D", "F">>,
                 <<"f", ".", "p", "n", "g">>, <<"f", ".", "j", "p", "g">>,
                 <<"f", ".", "e", "p", "s">> }

(***************************************************************************)
(* _resize_and_copy_figure as a state machine.                             *)
(***************************************************************************)
ResizeInit ==
  /\ fig_filename \in FigureNames
  /\ resize_image \in BOOLEAN
  /\ compress_pdf \in BOOLEAN
  /\ png_to_jpg_compress \in BOOLEAN
  /\ image_size \in 1..MaxImageSide
  /\ im_max \in 1..MaxImageSide
  /\ destination_folder = {}
  /\ process = "none"
  /\ elapsed = 0
  /\ fpc = "start"
  /\ CondIdle
  /\ ClosureIdle
  /\ CommandIdle
  /\ CommentsIdle
  /\ SearchIdle

\* im.save(os.path.join(destination_folder, filename), 'JPEG', quality=90)
SaveJpeg ==
  /\ fpc = "start"
  /\ IsResizedImage
  /\ ExtLower(fig_filename) # ExtPng
  /\ destination_folder' = WriteFile(destination_folder, fig_filename, Saved)
  /\ fpc' = "returned"
  /\ UNCHANGED <<fig_filename, resize_image, compress_pdf, png_to_jpg_compress, image_size,
                 im_max, process, elapsed>>
  /\ UNCHANGED outsideResize

\* im.save(os.path.join(destination_folder, filename), 'PNG')
SavePng ==
  /\ fpc = "start"
  /\ IsResizedImage
  /\ ExtLower(fig_filename) = ExtPng
  /\ ~png_to_jpg_compress
  /\ destination_folder' = WriteFile(destination_folder, fig_filename, Saved)
  /\ fpc' = "returned"
  /\ UNCHANGED <<fig_filename, resize_image, compress_pdf, png_to_jpg_compress, image_size,
                 im_max, process, elapsed>>
  /\ UNCHANGED outsideResize

\* new_filename = os.path.splitext(filename)[0] + ".jpg"; im.save(...)
SavePngAsJpeg ==
  /\ fpc = "start"
  /\ IsResizedImage
  /\ ExtLower(fig_filename) = ExtPng
  /\ png_to_jpg_compress
  /\ destination_folder' =
       WriteFile(destination_folder, Splitext0(fig_filename) \o ExtJpg, Saved)
  /\ fpc' = "returned"
  /\ UNCHANGED <<fig_filename, resize_image, compress_pdf, png_to_jpg_compress, image_size,
                 im_max, process, elapsed>>
  /\ UNCHANGED outsideResize

\* shutil.copy(...)
CopyOriginal ==
  /\ fpc = "start"
  /\ ~IsResizedImage
  /\ ~IsCompressedPdf
  /\ destination_folder' = WriteFile(destination_folder, fig_filename, "original")
  /\ fpc' = "returned"
  /\ UNCHANGED <<fig_filename, resize_image, compress_pdf, png_to_jpg_compress, image_size,
                 im_max, process, elapsed>>
  /\ UNCHANGED outsideResize

\* _resize_pdf_figure: process = subprocess.Popen(...)
StartProcess ==
  /\ fpc = "start"
  /\ IsCompressedPdf
  /\ process' = "running"
  /\ fpc' = "communicate"
  /\ UNCHANGED <<fig_filename, resize_image, compress_pdf, png_to_jpg_compress, image_size,
                 im_max, destination_folder, elapsed>>
  /\ UNCHANGED outsideResize

\* the tool begins its output file
ToolBeginsOutput ==
  /\ process = "running"
  /\ \A f \in destination_folder : f.name # fig_filename
  /\ destination_folder' = WriteFile(destination_folder, fig_filename, "partial")
  /\ UNCHANGED <<fig_filename, resize_image, compress_pdf, png_to_jpg_compress, image_size,
                 im_max, process, elapsed, fpc>>
  /\ UNCHANGED outsideResize

\* the tool exits with its output file whole, and process.communicate returns
ToolSucceeds ==
  /\ fpc = "communicate"
  /\ process = "running"
  /\ destination_folder' = WriteFile(destination_folder, fig_filename, "compressed")
  /\ process' = "exited"
  /\ fpc' = "returned"
  /\ UNCHANGED <<fig_filename, resize_image, compress_pdf, png_to_jpg_compress, image_size,
                 im_max, elapsed>>
  /\ UNCHANGED outsideResize

\* the tool exits with an error, and process.communicate returns
ToolFails ==
  /\ fpc = "communicate"
  /\ process = "running"
  /\ process' = "exited"
  /\ fpc' = "returned"
  /\ UNCHANGED <<fig_filename, resize_image, compress_pdf, png_to_jpg_compress, image_size,
                 im_max, destination_folder, elapsed>>
  /\ UNCHANGED outsideResize

\* a second of process.communicate(timeout=timeout) goes by
Wait ==
  /\ fpc = "communicate"
  /\ process = "running"
  /\ elapsed < timeout
  /\ elapsed' = elapsed + 1
  /\ UNCHANGED <<fig_filename, resize_image, compress_pdf, png_to_jpg_compress, image_size,
                 im_max, destination_folder, process, fpc>>
  /\ UNCHANGED outsideResize

\* except subprocess.TimeoutExpired: process.kill(); process.communicate();
\* print(...); and both functions return
TimeoutExpired ==
  /\ fpc = "communicate"
  /\ process = "running"
  /\ elapsed = timeout
  /\ process' = "killed"
  /\ fpc' = "returned"
  /\ UNCHANGED <<fig_filename, resize_image, compress_pdf, png_to_jpg_compress, image_size,
                 im_max, destination_folder, elapsed>>
  /\ UNCHANGED outsideResize

ResizeNext ==
  \/ SaveJpeg
  \/ SavePng
  \/ SavePngAsJpeg
  \/ CopyOriginal
  \/ StartProcess
  \/ ToolBeginsOutput
  \/ ToolSucceeds
  \/ ToolFails
  \/ Wait
  \/ TimeoutExpired

SpecResize == ResizeInit /\ [][ResizeNext]_vars

(***************************************************************************)
(* Vocabulary for the properties of _simplify_conditional_blocks.          *)
(***************************************************************************)
NodeIds == 2..Len(toplevel_tree)

Node(n) == toplevel_tree[n]

Elems(q) == { q[i] : i \in 1..Len(q) }

\* the offsets of input that are still in text
KeptSet == Elems(kept)

\* the offsets a token covers (none for an absent token)
TokOffsets(m) == IF m = NoMatch THEN {} ELSE m.s..(m.e - 1)

OwnTokens(n) == TokOffsets(Node(n).start) \cup TokOffsets(Node(n).els)
                  \cup TokOffsets(Node(n).end)

Literal(n) == Node(n).kind \in {"iftrue", "iffalse"}

HasElse(n) == Node(n).els # NoMatch

\* the offsets strictly between the tokens of n: before and after its \else
PreElse(n) == Node(n).start.e..((IF HasElse(n) THEN Node(n).els.s ELSE Node(n).end.s) - 1)

PostElse(n) == IF HasElse(n) THEN Node(n).els.e..(Node(n).end.s - 1) ELSE {}

TrueBranch(n) == IF Node(n).kind = "iftrue" THEN PreElse(n) ELSE PostElse(n)

FalseBranch(n) == IF Node(n).kind = "iftrue" THEN PostElse(n) ELSE PreElse(n)

Children(n) == Elems(Node(n).left) \cup Elems(Node(n).right)

Extent(n) == Node(n).start.s..(Node(n).end.e - 1)

\* the offsets of the statically-true branch of n outside every nested conditional
DirectTrue(n) == TrueBranch(n) \ UNION { Extent(c) : c \in Children(n) }

RECURSIVE Ancestors(_)
Ancestors(n) ==
  IF Node(n).parent \in {0, 1} THEN {}
  ELSE {Node(n).parent} \cup Ancestors(Node(n).parent)

\* n stands in the part of p that p's kind keeps
OnKeptSide(p, n) ==
  IF Node(p).kind = "iftrue" THEN n \in Elems(Node(p).left)
  ELSE IF Node(p).kind = "iffalse" THEN n \in Elems(Node(p).right)
  ELSE TRUE

\* n is not inside a dropped branch
RECURSIVE Live(_)
Live(n) ==
  \/ Node(n).parent = 1
  \/ OnKeptSide(Node(n).parent, n) /\ Live(Node(n).parent)

NoUnknownAncestor(n) == \A a \in Ancestors(n) : Node(a).kind # "unknown"

\* an \iftrue without \else
BareTrue(n) == Node(n).kind = "iftrue" /\ ~HasElse(n)

\* n is resolved as the statically-true branch: its tokens and its false
\* branch are gone, the text of its true branch is still there
Resolved(n) ==
  /\ OwnTokens(n) \cap KeptSet = {}
  /\ FalseBranch(n) \cap KeptSet = {}
  /\ \A i \in DirectTrue(n) : ~IsSpace(At(input, i)) => i \in KeptSet

\* C1: in a well-formed text, every literal conditional that has no unknown
\* ancestor (and is not itself inside a dropped branch) is resolved to its
\* statically-true branch: \iftrue A \else B \fi leaves A, \iffalse A \else B \fi
\* leaves B, \iftrue A \fi leaves A, \iffalse A \fi leaves nothing.
C1_LiteralResolvedToTrueBranch ==
  pc = "done" =>
    \A n \in NodeIds :
      Literal(n) /\ Live(n) /\ NoUnknownAncestor(n) => Resolved(n)

\* the same, away from the bodies of \iftrue without \else
C1_ResolvedOutsideBareTrue ==
  pc = "done" =>
    \A n \in NodeIds :
      Literal(n) /\ Live(n) /\ (\A a \in Ancestors(n) : ~BareTrue(a)) => Resolved(n)

C1_Witness ==
  /\ pc = "done"
  /\ \E n \in NodeIds :
       /\ Literal(n) /\ Live(n) /\ HasElse(n)
       /\ \E i \in DirectTrue(n) : ~IsSpace(At(input, i))
       /\ Node(n).els.e < Node(n).end.s

\* C2: a malformed text makes the function write the tree rendering and
\* return its input unchanged; it never raises.
C2_AbortReturnsInput ==
  /\ pc # "raised"
  /\ pc = "aborted" =>
       /\ text = input
       /\ stderr # <<>> /\ stderr[Len(stderr)].kind = "hint"

\* what does hold: whenever the function returns after an error, it returns
\* its input unchanged
C2_AbortedTextIsInput == pc \in {"aborted", "raised"} => text = input

\* C3: running the function again on what it returned changes nothing.
C3_Idempotent ==
  pc = "done" => Simplify(text, exceptions) = [pc |-> "done", text |-> text]

\* C4: an unknown conditional that is not inside a dropped branch keeps its
\* own tokens, and every literal conditional nested inside it is resolved.
C4_UnknownKeptInnerResolved ==
  pc = "done" =>
    \A u \in NodeIds :
      Node(u).kind = "unknown" /\ Live(u) =>
        /\ OwnTokens(u) \subseteq KeptSet
        /\ \A n \in NodeIds :
             Literal(n) /\ u \in Ancestors(n) => OwnTokens(n) \cap KeptSet = {}

\* the same, away from the bodies of \iftrue without \else
C4_OutsideBareTrue ==
  pc = "done" =>
    \A u \in NodeIds :
      Node(u).kind = "unknown" /\ Live(u) =>
        /\ OwnTokens(u) \subseteq KeptSet
        /\ \A n \in NodeIds :
             /\ Literal(n) /\ u \in Ancestors(n)
             /\ \A a \in Ancestors(n) : ~BareTrue(a)
             => OwnTokens(n) \cap KeptSet = {}

(***************************************************************************)
(* Vocabulary for the properties of _keep_only_referenced_tex.             *)
(***************************************************************************)
Max(a, b) == IF a >= b THEN a ELSE b

Returned == cpc \in {"returned", "added"}

\* the entry file, or every tex file of the root when there is none
Seeds == IF start_with # NoFile THEN {start_with} ELSE tex_in_root

\* the known files that some member of R mentions
MentionedBy(R) == { f \in tex_files : \E r \in R : Mentions(contents, f, r) }

\* R holds every known file one of its members mentions
Closed(R) == MentionedBy(R) \subseteq R

\* the Required set after one pass that starts from R
OnePass(R) == R \cup MentionedBy(R)

\* the Required set the passes settle on when they start from R
RECURSIVE Settle(_)
Settle(R) == IF OnePass(R) = R THEN R ELSE Settle(OnePass(R))

\* the last component of a path
Basename(f) == SubSeq(f, LastSlash(f) + 1, Len(f))

\* name stands in t as it is written, no word character before it and a dot
\* or a closing brace after it
TokenIn(name, t) ==
  \E p \in 0..(Len(t) - Len(name) - 1) :
    /\ Slice(t, p, p + Len(name)) = name
    /\ ~IsWord(At(t, p - 1))
    /\ At(t, p + Len(name)) \in {".", "}"}

\* Required only grows
Grows ==
  /\ referenced \subseteq referenced'
  /\ next_referenced \subseteq next_referenced'
  /\ referenced' \subseteq next_referenced'

\* an upper bound of the steps the loop has yet to take when it may run for
\* at most bound passes
WorkLeft(bound) ==
  (bound - passes) * (Cardinality(tex_files) + 1) * (Cardinality(tex_files) + 1)
  + Cardinality(to_visit) * (Cardinality(tex_files) + 1)
  + Cardinality(to_search)

\* the loop is not stuck before it returns: the inner for-loop has a file
\* to take, or the outer one has, or the if that ends the pass goes one way
NotStuck ==
  cpc = "pass" => to_search # {} \/ ENABLED (NextFile \/ PassReturn \/ PassAgain)

\* the most passes the loop may take according to C5 as stated, and as amended
FilesPasses == Cardinality(tex_files)

FilesOrOnePass == Max(1, Cardinality(tex_files))

C6_OrderIndependent ==
  /\ PassEnded => next_referenced = OnePass(referenced)
  /\ Returned => referenced = Settle(Seeds)

C6_Witness ==
  /\ cpc = "returned"
  /\ passes >= 2
  /\ Cardinality(referenced) >= 3

\* C7: the set written to splits['tex_to_copy'] is the least fixpoint of the
\* mentions relation: it holds the seeds, it is closed under mentions, and
\* it is part of every set of known files that holds the seeds and is closed.
C7_LeastFixpoint ==
  Returned =>
    /\ Seeds \subseteq tex_to_copy
    /\ Closed(tex_to_copy)
    /\ \A X \in SUBSET tex_files :
         Seeds \subseteq X /\ Closed(X) => tex_to_copy \subseteq X

C7_Witness ==
  /\ Returned
  /\ Cardinality(tex_to_copy) >= 2
  /\ tex_to_copy # tex_files
  /\ \E f \in tex_files \ tex_to_copy : \E r \in tex_files : Mentions(contents, f, r)

\* C8 as stated: a known file is added whenever the content of a required
\* file holds its basename without extension, directory left out, as a token
\* followed by "." or "}".
C8_KeyedOnBasename ==
  Returned =>
    \A f \in tex_files : \A r \in tex_to_copy :
      TokenIn(Splitext0(Basename(f)), JoinLines(contents[r])) => f \in tex_to_copy

\* C8, amended: a known file is added whenever the content of a required file
\* holds its path without extension, directory included, as a token followed
\* by "." or "}"; for a file of the root that is its basename.
C8_KeyedOnPath ==
  Returned =>
    \A f \in tex_files : \A r \in tex_to_copy :
      TokenIn(Splitext0(f), JoinLines(contents[r])) => f \in tex_to_copy

C8_Witness ==
  /\ Returned
  /\ \E f \in tex_not_in_root \cap tex_to_copy : \E r \in tex_to_copy :
       /\ f # start_with
       /\ TokenIn(Splitext0(f), JoinLines(contents[r]))

(***************************************************************************)
(* Vocabulary for the properties of _remove_command.                       *)
(***************************************************************************)
\* the argument of the command in match m of t: what stands between the
\* braces of the brace group of base_pattern
Argument(t, m) ==
  Slice(t, ArgStart(t, m.s + 1 + Len(Command)) + 1,
        BalancedEnd(t, ArgStart(t, m.s + 1 + Len(Command))) - 1)

\* t with the matches ms[1..k] replaced by their arguments
RECURSIVE UnwrapMatches(_, _, _)
UnwrapMatches(t, ms, k) ==
  IF k = 0 THEN t
  ELSE UnwrapMatches(Slice(t, 0, ms[k].s) \o Argument(t, ms[k]) \o Slice(t, ms[k].e, Len(t)),
                     ms, k - 1)

\* t with every occurrence of the command unwrapped, nested ones too
RECURSIVE Unwrapped(_)
Unwrapped(t) ==
  IF CmdFindIter(t, 0, Command) = <<>> THEN t
  ELSE Unwrapped(UnwrapMatches(t, CmdFindIter(t, 0, Command),
                               Len(CmdFindIter(t, 0, Command))))

HasNewlineFrom(t, e) == \E k \in e..(Len(t) - 1) : At(t, k) = "\n"

\* the rest of the line after offset e: up to the next newline, which exists
RestOfLine(t, e) ==
  LET N == { k \in e..(Len(t) - 1) : At(t, k) = "\n" }
  IN Slice(t, e, CHOOSE k \in N : \A j \in N : k <= j)

\* C9: with keep_text=True the loop ends with a text that holds no match of
\* the command, and that text is the input with every occurrence, nested
\* ones too, replaced by its argument, no character of an argument lost.
C9_FullyUnwrapped ==
  rpc = "returned" /\ keep_text =>
    /\ CmdFindIter(cmd_text, 0, Command) = <<>>
    /\ cmd_text = Unwrapped(cmd_input)

\* C10: with keep_text=False a match followed, up to the next newline, by
\* whitespace only or by nothing is replaced by "%", every other match (one
\* with no newline after it included) by the empty string; with
\* keep_text=True no "%" is put in.
C10_PercentOnBlankRestOfLine ==
  /\ rpc = "substitute" /\ ~keep_text =>
       \A i \in 1..Len(all_substitutions) :
         all_substitutions[i].new =
           IF /\ HasNewlineFrom(cmd_text, all_substitutions[i].e)
              /\ \A c \in Elems(RestOfLine(cmd_text, all_substitutions[i].e)) : IsSpace(c)
           THEN <<"%">> ELSE <<>>
  /\ keep_text =>
       /\ "%" \notin Elems(cmd_text)
       /\ \A i \in 1..Len(all_substitutions) : "%" \notin Elems(all_substitutions[i].new)

C10_Witness ==
  /\ rpc = "substitute"
  /\ ~keep_text
  /\ \E i, j \in 1..Len(all_substitutions) :
       /\ all_substitutions[i].new = <<"%">>
       /\ all_substitutions[j].new = <<>>
       /\ HasNewlineFrom(cmd_text, all_substitutions[j].e)

(***************************************************************************)
(* Vocabulary for the properties of _remove_comments_inline.               *)
(***************************************************************************)
LineReturned == lpc \in {"auto_ignore", "comment_line", "final"}

\* offset p of t lies inside a \url{...} span
InsideUrl(t, p) == \E q \in 0..p : UrlEnd(t, q) # -1 /\ p < UrlEnd(t, q)

\* the offsets of the unescaped percent signs of t outside every \url{...} span
CommentOffsets(t) ==
  { p \in 0..(Len(t) - 1) : At(t, p) = "%" /\ At(t, p - 1) # BS /\ ~InsideUrl(t, p) }

HasComment(t) == CommentOffsets(t) # {}

\* the offset of the comment character of t
CommentStart(t) == CHOOSE p \in CommentOffsets(t) : \A q \in CommentOffsets(t) : p <= q

\* the end of the last \url{...} span that ends at or before offset p, or 0
LastUrlEnd(t, p) ==
  LET E == { UrlEnd(t, q) : q \in 0..p } \cap 1..p
  IN IF E = {} THEN 0 ELSE CHOOSE e \in E : \A d \in E : d <= e

\* the comment character of t is the first character of t that is no blank
FirstNonBlankIsPercent(t) == StartsWithPercent(Lstrip(t, {" ", "\t"}))

\* only whitespace stands between the last \url{...} span (or the start of
\* the line) and the comment character
BlankBeforeComment(t) ==
  \A k \in LastUrlEnd(t, CommentStart(t))..(CommentStart(t) - 1) : IsSpace(At(t, k))

\* C11 as stated: a line with a comment becomes the text before the comment
\* character followed by a newline, the comment character and everything
\* after it removed; a line whose first non-blank character is "%" becomes
\* empty.
C11_CommentCharacterRemoved ==
  LineReturned /\ ~AutoIgnoreFrom(line, 0) /\ HasComment(line) =>
    line_out = IF FirstNonBlankIsPercent(line) THEN <<>>
               ELSE Slice(line, 0, CommentStart(line)) \o <<"\n">>

\* C11, amended: the comment character is kept and what follows it is
\* replaced by a newline; when only whitespace stands between the start of
\* the line (or the end of the last \url{...} span) and the comment character,
\* that whitespace and the comment character are removed too; a line that
\* starts with spaces, then tabs, then "%" becomes empty.
C11_CommentCharacterKept ==
  LineReturned /\ ~AutoIgnoreFrom(line, 0) /\ HasComment(line) =>
    line_out = IF IsCommentLine(line) THEN <<>>
               ELSE IF BlankBeforeComment(line)
               THEN Slice(line, 0, LastUrlEnd(line, CommentStart(line))) \o <<"\n">>
               ELSE Slice(line, 0, CommentStart(line) + 1) \o <<"\n">>

C11_Witness ==
  /\ lpc = "final"
  /\ HasComment(line)
  /\ ~BlankBeforeComment(line)
  /\ \E p \in 0..(CommentStart(line) - 1) : At(line, p) = "%" /\ InsideUrl(line, p)
  /\ CommentStart(line) + 1 < Len(line)

\* C12 as stated: on every return path the returned string ends with a
\* newline.
C12_AlwaysEndsWithNewline == LineReturned => EndsWith(line_out, <<"\n">>)

\* C12, amended: the final return gives a string that ends with a newline
\* unless the joined segments end with a backslash followed by "n"; the
\* return for a whole-line comment gives the empty string; the return for an
\* auto-ignore line gives a string that ends with a newline when the line does.
C12_NewlineByReturnPath ==
  /\ lpc = "final" =>
       \/ EndsWith(line_out, <<"\n">>)
       \/ EndsWith(line_out, <<BS, "n">>) /\ line_out = JoinSegments(segments)
  /\ lpc = "comment_line" => line_out = <<>>
  /\ lpc = "auto_ignore" => (EndsWith(line_out, <<"\n">>) <=> EndsWith(line, <<"\n">>))

C12_Witness ==
  /\ lpc = "final"
  /\ ~EndsWith(line, <<"\n">>)
  /\ EndsWith(line_out, <<"\n">>)
  /\ ~HasComment(line)
  /\ Len(line) > 0

(***************************************************************************)
(* Vocabulary for the properties of _search_reference.                     *)
(***************************************************************************)
SearchReturned == spc = "returned"

\* the letter c without its case
FoldCase(c) ==
  CASE c = "F" -> "f" [] c = "I" -> "i" [] c = "G" -> "g"
    [] c = "P" -> "p" [] c = "D" -> "d" [] OTHER -> c

\* the text t holds the text s somewhere, the cases of letters set aside
ContainsFold(t, s) ==
  \E p \in 0..(Len(t) - Len(s)) :
    \A j \in 1..Len(s) : FoldCase(t[p + j]) = FoldCase(s[j])

\* the directory prefix, the stem and the extension of the candidate path f
DirPrefix(f) == SubSeq(f, 1, LastSlash(f))

ExtensionOf(f) == IF ExtDot(f) = 0 THEN <<>> ELSE SubSeq(f, ExtDot(f), Len(f))

StemOf(f) == SubSeq(f, LastSlash(f) + 1, Len(f) - Len(ExtensionOf(f)))

\* the references to f in braces, with and without its directory prefix and
\* with and without its extension
ReferenceForms(f) ==
  { <<"{">> \o d \o StemOf(f) \o e \o <<"}">> :
      d \in {<<>>, DirPrefix(f)}, e \in {<<>>, ExtensionOf(f)} }

\* C13: without strict, contents that hold the candidate path in braces are
\* matched whether or not the directory prefix is there, whether or not the
\* extension is there, and in any case of letters; with strict, contents are
\* matched exactly when they hold the whole path with its directory and its
\* extension, in any case of letters.
C13_LooseOptionalStrictLiteral ==
  SearchReturned =>
    /\ ~strict =>
         \A r \in ReferenceForms(filename) : ContainsFold(ref_contents, r) => ref_match
    /\ strict => (ref_match <=> ContainsFold(ref_contents, filename))

\* plots/fig.pdf is found in {FIG.PDF} without strict
C13_Witness ==
  /\ SearchReturned
  /\ ~strict
  /\ filename = FilePlotsFig
  /\ ref_contents = <<"{", "F", "I", "G", ".", "P", "D", "F", "}">>
  /\ ref_match

\* plots/fig.pdf is not found in {plots/fig} nor in {FIG.PDF} with strict
C13_StrictWitness ==
  /\ SearchReturned
  /\ strict
  /\ filename = FilePlotsFig
  /\ ref_contents \in { <<"{", "p", "l", "o", "t", "s", "/", "f", "i", "g", "}">>,
                        <<"{", "F", "I", "G", ".", "P", "D", "F", "}">> }
  /\ ~ref_match

(***************************************************************************)
(* Exempt conditionals of _simplify_conditional_blocks.                    *)
(***************************************************************************)
\* the names on the exception list: the built-in ones and if_exceptions
ExemptNames == BuiltinExceptions \cup if_exceptions

\* the match m of text t is an \if<name> whose name is on the exception list
Exempt(t, m) ==
  /\ StartsWith(NoSpace(Group(t, m)), LitIf)
  /\ Tail(NoSpace(Group(t, m))) \in ExemptNames

\* the offsets of input at which its exempt tokens start
ExemptStarts == { matches[i].s : i \in { j \in 1..Len(matches) : Exempt(input, matches[j]) } }

\* input with every exempt token made inert text of the same length: its
\* backslash gives way to a character that is in no token
Inert ==
  LET starts == ExemptStarts
  IN [j \in 1..Len(input) |-> IF (j - 1) \in starts THEN "#" ELSE input[j]]

\* the backslashes put back
Revert(t) == [j \in 1..Len(t) |-> IF t[j] = "#" THEN BS ELSE t[j]]

ResizeReturned == fpc = "returned"

\* the wait for the external tool ran out
TimedOut == ResizeReturned /\ process = "killed"

\* the destination folder holds the figure, as a copy of the original
OriginalCopied == File(fig_filename, "original") \in destination_folder

\* the destination folder holds a whole file under the name of the figure
FigurePresent ==
  \E f \in destination_folder : f.name = fig_filename /\ f.holds # "partial"

\* C15: when the external PDF tool does not finish within the wait, the
\* process is killed, the call returns, and the original figure has been
\* copied, so that the destination folder holds the figure.
C15_TimeoutFallsBackToCopy ==
  TimedOut => OriginalCopied /\ FigurePresent

\* what holds instead: after a timeout the process is killed, the call
\* returns, and the destination folder holds no whole file of that name
C15_TimeoutLeavesNoFigure ==
  TimedOut => ~FigurePresent /\ ~OriginalCopied /\ process = "killed"

(***************************************************************************)
(* The spans of _simplify_conditional_blocks and their application.        *)
(***************************************************************************)
Spans == positions_to_delete

\* the spans already applied are those after the first todo ones
Applied == (todo + 1)..Len(Spans)

\* C16: when the scan ends with a well-formed tree, the spans collected by
\* traverse_tree are not empty, each span ends where the next one starts or
\* before it (so they do not overlap and are collected in ascending order of
\* their start), and when a span is about to be applied the text up to its
\* end is still the text of the input there, so that its offsets mean what
\* they meant when they were computed.
C16_SpansAscendingOffsetsValid ==
  pc \in {"apply", "done"} =>
    /\ \A i \in 1..Len(Spans) : Spans[i][1] < Spans[i][2]
    /\ \A i \in 1..(Len(Spans) - 1) : Spans[i][2] <= Spans[i + 1][1]
    /\ todo > 0 =>
         /\ Spans[todo][2] <= Len(text)
         /\ \A j \in 1..Spans[todo][2] : kept[j] = j - 1 /\ text[j] = input[j]

\* a span has been applied, with its trailing whitespace, and two more are
\* still to be applied
C16_Witness ==
  /\ pc = "apply"
  /\ todo >= 2
  /\ todo < Len(Spans)
  /\ Len(text) < Len(input) - (Spans[todo + 1][2] - Spans[todo + 1][1])

(***************************************************************************)
(* The shape of the conditional tree during the scan.                      *)
(***************************************************************************)
AllNodes == 1..Len(toplevel_tree)

\* the current node and the nodes above it, the root included
RECURSIVE PathToRoot(_)
PathToRoot(n) == IF Node(n).parent = 0 THEN {n} ELSE {n} \cup PathToRoot(Node(n).parent)

\* how often n stands in the lists of children of p
TimesChildOf(p, n) ==
  Cardinality({ i \in 1..Len(Node(p).left) : Node(p).left[i] = n })
    + Cardinality({ i \in 1..Len(Node(p).right) : Node(p).right[i] = n })

\* the number of parent links from n up to the root
RECURSIVE Depth(_)
Depth(n) == IF Node(n).parent = 0 THEN 0 ELSE 1 + Depth(Node(n).parent)

MaxOf(S) == CHOOSE x \in S : \A y \in S : y <= x

TreeDepth == MaxOf({ Depth(n) : n \in AllNodes })

\* the directives among the first i matches: the \if that are not exempt
\* open a level, the \fi close one
Opens(i) ==
  Cardinality({ j \in 1..i : StartsWith(Group(input, matches[j]), LitIf)
                             /\ ~Exempt(input, matches[j]) })

Closes(i) == Cardinality({ j \in 1..i : Group(input, matches[j]) = LitFi })

\* the deepest nesting of the directives scanned so far
MaxNesting == MaxOf({ Opens(i) - Closes(i) : i \in 0..mi })

\* the tree as it stands
WellFormedTree ==
  /\ Node(1).parent = 0
  /\ \A n \in NodeIds :
       /\ Node(n).parent \in 1..(n - 1)
       /\ \A p \in AllNodes : TimesChildOf(p, n) = (IF p = Node(n).parent THEN 1 ELSE 0)
       /\ Node(n).end # NoMatch <=> n \notin PathToRoot(tree)
       /\ Node(n).els # NoMatch => Node(n).start.e <= Node(n).els.s
       /\ Node(n).els # NoMatch /\ Node(n).end # NoMatch => Node(n).els.e <= Node(n).end.s
  /\ tree \in AllNodes
  /\ 1 \in PathToRoot(tree)
  /\ TreeDepth = MaxNesting

\* what a step of the scan may do to the tokens of the nodes there are
TokensRecordedOnce ==
  \A n \in NodeIds :
    /\ Node(n).els # NoMatch => toplevel_tree'[n].els = Node(n).els
    /\ Node(n).end # NoMatch => toplevel_tree'[n].end = Node(n).end
    /\ toplevel_tree'[n].els # Node(n).els => n = tree /\ tree' = tree
    /\ toplevel_tree'[n].end # Node(n).end => n = tree /\ tree' = Node(n).parent
    /\ toplevel_tree'[n].parent = Node(n).parent

\* C17: at every step of the scan the tree is well formed: the \else of a
\* node, once recorded, is never recorded again; the \fi of a node is
\* recorded once, at the step that makes its parent the current node, so
\* that exactly the nodes off the path from the current node to the root
\* have one; every node but the root stands once among the children of one
\* node, its parent; the parent links from the current node lead to the root
\* (a parent is older than its child, so there is no cycle); and the depth
\* of the tree is the deepest nesting of the non-exempt directives scanned
\* so far.
C17_TreeWellFormedAtEveryStep ==
  /\ [](pc # "idle" => WellFormedTree)
  /\ [][TokensRecordedOnce]_vars

\* the scan stands inside a node that has its \else and a closed child, with
\* another node closed before it
C17_Witness ==
  /\ pc = "scan"
  /\ tree # 1
  /\ HasElse(tree)
  /\ Children(tree) # {}
  /\ TreeDepth >= 2
  /\ \E n \in NodeIds : Node(n).end # NoMatch

(***************************************************************************)
(* What the application of the spans removes.                              *)
(***************************************************************************)
\* the offsets of input that are no longer in text
Removed == (0..(Len(input) - 1)) \ KeptSet

\* the offsets inside the spans applied so far
InApplied == UNION { Spans[i][1]..(Spans[i][2] - 1) : i \in Applied }

\* the offsets removed outside the spans
Consumed == Removed \ InApplied

\* offset i is reached from the end of an applied span over removed offsets
\* only: it stood directly after that span when the span was applied
DirectlyAfterSpan(i) ==
  \E k \in Applied : Spans[k][2] <= i /\ \A j \in Spans[k][2]..i : j \in Removed

\* C18: while and after the spans are applied to a well-formed text, every
\* removed character lies inside an applied span or is a whitespace
\* character that stood directly after an applied span, with at most one
\* such character for each applied span; no other character is removed, and
\* the characters left are those of the input in their order.
C18_OnlySpansAndOneWhitespaceRemoved ==
  pc \in {"apply", "done"} =>
    /\ InApplied \subseteq Removed
    /\ \A i \in Consumed : IsSpace(At(input, i)) /\ DirectlyAfterSpan(i)
    /\ Cardinality(Consumed) <= Cardinality(Applied)
    /\ Len(text) = Len(kept)
    /\ \A j \in 1..Len(kept) : text[j] = input[kept[j] + 1]
    /\ \A j \in 1..(Len(kept) - 1) : kept[j] < kept[j + 1]

\* the call has returned a text from which spans and a whitespace character
\* after a span are gone while a whitespace character outside is still there
C18_Witness ==
  /\ pc = "done"
  /\ Consumed # {}
  /\ \E j \in 1..Len(text) : IsSpace(text[j])
  /\ Cardinality(Applied) >= 2

====
